---- MODULE Spec2Model ----
(***************************************************************************)
(* The frame loop of the Vulkan application (src/src/main.rs): the run     *)
(* loop, process_event, draw_frame, recreate_swapchain, cleanup_swapchain, *)
(* Drop for VulkanApp and the InFlightFrames ring, together with the GPU   *)
(* and the presentation engine that execute what the application queues.   *)
(*                                                                         *)
(* The CPU is one thread whose position is pc.  The GPU side is a set of   *)
(* asynchronous actions: the presentation engine signalling an acquire     *)
(* semaphore, a queued submission completing, a queued present request     *)
(* consuming its wait semaphore.                                           *)
(***************************************************************************)
EXTENDS Integers, Sequences, FiniteSets, TLC

\* ------------------------------------------------------------- constants
\* const MAX_FRAMES_IN_FLIGHT: u32 = 2;
MAX_FRAMES_IN_FLIGHT == 2

\* vk::SampleCountFlags::TYPE_1 .. TYPE_64
TYPE_1 == 1
TYPE_2 == 2
TYPE_4 == 4
TYPE_8 == 8
TYPE_16 == 16
TYPE_32 == 32
TYPE_64 == 64

\* ---------------------------------------------------------------- bounds
\* Largest number of images a swapchain is created with.
MaxImages == 2
\* Window widths range over 0..MaxDim.
MaxDim == 2
\* Window heights range over 0..MaxHeight.
MaxHeight == 1
\* Present requests the presentation engine queues before
\* vkQueuePresentKHR blocks.
MaxPendingPresents == 2
\* Largest number of synchronization sets of a ring (SpecRing).
MaxSlots == 4
\* Number of calls of InFlightFrames::next followed (SpecRing).
MaxCalls == 30
MaxCommands == 3
MaxOneTimeCalls == 3
MaxMemoryTypes == 3
\* Largest number of window events one poll_events call delivers.
MaxBatch == 2
\* Largest width and height of the texture file's image.
MaxTextureSize == 4
\* Rebuilds followed by the texture specification.
MaxTextureRebuilds == 2
\* Largest number of elements uploaded to a device-local buffer.
MaxDataLen == 3
\* Largest number of bytes a memory requirement exceeds the buffer size by.
MaxPadding == 3
\* Largest number of queue families of a device, and of queues of a family.
MaxFamilies == 3
MaxQueues == 1

VARIABLES
    pc,                 \* position of the control thread
    rc_ret,             \* where recreate_swapchain returns to
    resize_dimensions,  \* VulkanApp.resize_dimensions: NONE or <<w, h>>
    sync_objects,       \* InFlightFrames.sync_objects (index from 0)
    current_frame,      \* InFlightFrames.current_frame
    sync_local,         \* draw_frame's local sync_objects
    image_index,        \* draw_frame's local image_index
    fence,              \* fence handle -> signaled?
    sem,                \* semaphore handle -> number of unconsumed signals
    frames,             \* frames submitted to the GPU, in submission order
    swapchain,          \* VulkanApp.swapchain
    command_buffers,    \* VulkanApp.command_buffers
    steps,              \* the calls draw_frame has made in this iteration
    acq_res,            \* what acquire_next_image returned in this iteration
    pres_res,           \* what present returned in this iteration
    rebuilds,           \* calls of recreate_swapchain in this iteration
    used,               \* fence handle -> a submission has used it
    create_dims,        \* dimensions of the last Swapchain::create call
    entered_minimized,  \* recreate_swapchain found the window minimized on entry
    calls,              \* SpecRing: calls of next() so far
    ret,                \* SpecRing: what the last call of next() returned
    objects,            \* VulkanApp.objects: per object, its uniforms and descriptor sets
    render_pass,        \* VulkanApp.render_pass
    pipeline,           \* VulkanApp.pipeline
    pipeline_layout,    \* VulkanApp.pipeline_layout
    quiet,              \* a rebuild has happened and no resize event was seen since
    debug_report_callback, \* VkContext.debug_report_callback: NONE or Some
    context_rc,         \* strong count of the Rc<VkContext>
    mesh_rc,            \* strong count of the Rc<Mesh>
    todo,               \* teardown: the drops and Rc releases still to run, in order
    destroyed,          \* teardown: the destroy calls and Rc releases made, in order
    ot_pc,              \* execute_one_time_commands: position
    command_buffer,     \* execute_one_time_commands: its command buffer
    ot_log,             \* execute_one_time_commands: the calls made so far
    ot_calls,           \* execute_one_time_commands: calls started so far
    requirements,       \* find_memory_type: requirements.memory_type_bits
    mem_properties,     \* find_memory_type: mem_properties
    required_properties, \* find_memory_type: required_properties
    mem_type,           \* find_memory_type: NONE, <<"index", i>> or <<"panic">>
    polled,             \* what the event queue delivered at the last poll
    tex_pc,             \* texture creation: position
    image_layouts,      \* image -> the layout of each of its mip levels
    requests,           \* the transition_image_layout calls made, in order
    tex_size,           \* width and height of the texture file's image
    tex_rebuilds,       \* texture creation: rebuilds so far
    cp_pc,              \* create_device_local_buffer_with_data: position
    data_size,          \* its local size: data.len() * size_of::<T>()
    staging_buffer,     \* its local staging_buffer
    buffer,             \* its local buffer
    copy_size,          \* the size it gives to Buffer::copy, or NONE
    queue_props,        \* find_queue_families: the device's queue families
    queue_families,     \* find_queue_families: NONE or its result
    color_sample_counts, \* limits.framebuffer_color_sample_counts
    depth_sample_counts, \* limits.framebuffer_depth_sample_counts
    msaa_samples        \* empty (0) or what get_max_usable_sample_count returned

vars == << pc, rc_ret, resize_dimensions, sync_objects, current_frame,
           sync_local, image_index, fence, sem, frames, swapchain,
           command_buffers, steps, acq_res, pres_res, rebuilds, used,
           create_dims, entered_minimized, calls, ret, objects, render_pass,
           pipeline, pipeline_layout, quiet, debug_report_callback,
           context_rc, mesh_rc, todo, destroyed, ot_pc, command_buffer,
           ot_log, ot_calls, requirements, mem_properties,
           required_properties, mem_type, polled, tex_pc, image_layouts,
           requests, tex_size, tex_rebuilds, cp_pc, data_size,
           staging_buffer, buffer, copy_size, queue_props, queue_families,
           color_sample_counts, depth_sample_counts, msaa_samples >>

\* Option::None
NONE == << >>

\* Option<[u32; 2]> values a resize event carries.
Dims == (0..MaxDim) \X (0..MaxHeight)

\* const WIDTH / HEIGHT, scaled into the model's range of sizes.
InitialDims == << MaxDim, MaxHeight >>

\* --------------------------------------------------------- window events
\* The window events process_event tells apart; Other stands for the events
\* that leave should_stop and resize_dimensions alone.
CloseRequested == << "CloseRequested" >>
Resized(d) == << "Resized", d >>
Other == << "Other" >>

WindowEvents == { CloseRequested, Other } \cup { Resized(d) : d \in Dims }

\* What one call of poll_events hands to the closure, in order.
Batches == UNION { [ 1..n -> WindowEvents ] : n \in 0..MaxBatch }

\* Variant: the first Resized event of a batch is kept.
RECURSIVE PollEventsKeepFirst(_, _, _)
PollEventsKeepFirst(batch, i, acc) ==
    IF i > Len(batch) THEN acc
    ELSE PollEventsKeepFirst(batch, i + 1,
            IF batch[i] = CloseRequested
            THEN [ acc EXCEPT !.should_stop = TRUE ]
            ELSE IF batch[i][1] = "Resized" /\ acc.resize_dimensions = << >>
                 THEN [ acc EXCEPT !.resize_dimensions = batch[i][2] ]
                 ELSE acc)

\* The closure given to poll_events, applied to the events from the i-th
\* on: CloseRequested sets should_stop, Resized overwrites the local
\* resize_dimensions, any other event changes neither.
RECURSIVE PollEvents(_, _, _)
PollEvents(batch, i, acc) ==
    IF i > Len(batch) THEN acc
    ELSE PollEvents(batch, i + 1,
            IF batch[i] = CloseRequested
            THEN [ acc EXCEPT !.should_stop = TRUE ]
            ELSE IF batch[i][1] = "Resized"
                 THEN [ acc EXCEPT !.resize_dimensions = batch[i][2] ]
                 ELSE acc)

\* process_event on a batch: the locals start as false and None; it returns
\* should_stop and stores the local resize_dimensions in the field.
ProcessEventOn(batch) ==
    PollEvents(batch, 1, [ should_stop |-> FALSE, resize_dimensions |-> NONE ])

\* What the event queue delivered in a batch: whether a CloseRequested was
\* among the events, and the dimensions of the latest Resized event.
Delivered(batch) ==
    LET R == { i \in 1..Len(batch) : batch[i][1] = "Resized" } IN
    [ close   |-> \E i \in 1..Len(batch) : batch[i] = CloseRequested,
      resized |-> IF R = {} THEN << >>
                  ELSE batch[CHOOSE i \in R : \A j \in R : j <= i][2] ]

\* Every pair of what a poll can deliver and what process_event makes of it.
PollOutcomes ==
    { [ delivered |-> Delivered(b), result |-> ProcessEventOn(b) ] :
        b \in Batches }

\* ------------------------------------------------------ sync objects
\* The synchronization sets InFlightFrames holds: set i owns the
\* semaphores <<"ia", i>>, <<"rf", i>> and the fence i.
SyncVec(n) ==
    [ i \in 0..(n - 1) |->
        [ image_available_semaphore |-> << "ia", i >>,
          render_finished_semaphore |-> << "rf", i >>,
          fence                     |-> i ] ]

\* Variant: fences created without FenceCreateFlags::SIGNALED.
FenceCreateUnsignaled == FALSE

\* vk::FenceCreateInfo::builder().flags(vk::FenceCreateFlags::SIGNALED)
FenceCreateSignaled == TRUE

\* create_sync_objects: MAX_FRAMES_IN_FLIGHT sets.
CreateSyncObjects == SyncVec(MAX_FRAMES_IN_FLIGHT)

SyncLen(v) == Cardinality(DOMAIN v)

Semaphores(v) ==
    { v[i].image_available_semaphore : i \in DOMAIN v } \cup
    { v[i].render_finished_semaphore : i \in DOMAIN v }

Fences(v) == { v[i].fence : i \in DOMAIN v }

\* Variant: a ring that never advances current_frame.
InFlightFramesNextStuck(v, cur) ==
    [ item |-> << "Some", v[cur] >>, current_frame |-> cur ]

\* InFlightFrames::next: the set at current_frame, and the advanced index.
InFlightFramesNext(v, cur) ==
    [ item          |-> << "Some", v[cur] >>,
      current_frame |-> (cur + 1) % SyncLen(v) ]

\* Option::unwrap
Unwrap(o) == o[2]

\* ------------------------------------------------------ window / swapchain
\* has_window_been_minimized
HasWindowBeenMinimized(rd) ==
    rd # NONE /\ (rd[1] = 0 \/ rd[2] = 0)

\* Variant: one positive dimension is enough to leave the minimized loop.
HasWindowBeenMaximizedLoose(rd) ==
    rd # NONE /\ (rd[1] > 0 \/ rd[2] > 0)

\* has_window_been_maximized
HasWindowBeenMaximized(rd) ==
    rd # NONE /\ (rd[1] > 0 /\ rd[2] > 0)

Max(a, b) == IF a > b THEN a ELSE b
Min(a, b) == IF a < b THEN a ELSE b

\* The surface's reported minimum and maximum image extent.  The maximum
\* width lies below the widest window size an event reports, so that the
\* negotiation changes some requests.
SurfaceMinExtent == << 1, 1 >>
SurfaceMaxExtent == << Max(1, MaxDim - 1), MaxHeight >>

Clamp(x, lo, hi) == Max(lo, Min(x, hi))

\* get_ideal_swapchain_properties: the extent is the requested one clamped
\* to the surface's minimum and maximum extent.
NegotiateExtent(d) ==
    << Clamp(d[1], SurfaceMinExtent[1], SurfaceMaxExtent[1]),
       Clamp(d[2], SurfaceMinExtent[2], SurfaceMaxExtent[2]) >>

\* The surface formats and present modes the device reports for the surface.
SurfaceFormats == << "first_reported", "preferred" >>
SurfacePresentModes == { "fifo", "mailbox" }

\* get_ideal_swapchain_properties: the preferred (format, color space) pair
\* when the surface reports it, else the first format reported.
ChooseSwapchainSurfaceFormat(formats) ==
    IF \E i \in 1..Len(formats) : formats[i] = "preferred"
    THEN "preferred" ELSE formats[1]

\* get_ideal_swapchain_properties: mailbox when available, else fifo.
ChooseSwapchainPresentMode(modes) ==
    IF "mailbox" \in modes THEN "mailbox" ELSE "fifo"

\* Variant: with no resize pending the window's initial size is requested.
RecreateDimensionsDefault(rd, sc) ==
    IF rd # NONE THEN rd ELSE InitialDims

\* self.resize_dimensions.unwrap_or([extent.width, extent.height])
RecreateDimensions(rd, sc) ==
    IF rd # NONE THEN rd ELSE sc.extent

\* Swapchain::create with n images.
SwapchainCreate(d, n) ==
    [ extent       |-> NegotiateExtent(d),
      format       |-> ChooseSwapchainSurfaceFormat(SurfaceFormats),
      present_mode |-> ChooseSwapchainPresentMode(SurfacePresentModes),
      image_count  |-> n,
      alive        |-> TRUE ]

\* Variant: one command buffer per frame in flight.
CreateCommandBuffersPerFrame(sc) ==
    [ count |-> MAX_FRAMES_IN_FLIGHT, alive |-> TRUE ]

\* create_and_register_command_buffers: command_buffer_count is
\* swapchain.image_count().
CreateAndRegisterCommandBuffers(sc) ==
    [ count |-> sc.image_count, alive |-> TRUE ]

\* ------------------------------------------------------------ GPU frames
\* What a submission reads while it executes: its command buffer, and the
\* uniform buffer whose descriptor set that command buffer binds
\* (register_draw_commands binds descriptor_sets(i) in command buffer i).
Uses(sub) ==
    { << "command_buffer", sub.command_buffer >>,
      << "uniform_buffer", sub.command_buffer >> }

\* create_uniform_buffers(context, count): count buffers.
CreateUniformBuffers(count) == count

\* create_descriptor_sets: one set per uniform buffer.
CreateDescriptorSets(uniform_buffers) == uniform_buffers

\* The closure create_obj of VulkanApp::new: the sizes of the two arrays of
\* an Object made for a swapchain of image_count images.
CreateObj(image_count) ==
    LET uniform_buffers == CreateUniformBuffers(image_count) IN
    [ uniforms        |-> uniform_buffers,
      descriptor_sets |-> CreateDescriptorSets(uniform_buffers) ]

Frame(so, sub) ==
    [ uses       |-> Uses(sub),  \* emptied when the submission completes
      acq_sem    |-> so.image_available_semaphore,
      wait_sem   |-> sub.wait_semaphore,
      signal_sem |-> sub.signal_semaphore,
      fence      |-> sub.fence,
      pres_sem   |-> NONE,
      st         |-> "queued",   \* queued, then done
      observed   |-> FALSE,      \* the CPU saw the fence signaled after completion
      pres       |-> "none" ]    \* none, pending, shown

\* Frames the CPU has not yet seen complete through their fence.
InFlight == { i \in 1..Len(frames) : ~frames[i].observed }

AllDone == \A i \in 1..Len(frames) : frames[i].st = "done"

NoPresentPending == \A i \in 1..Len(frames) : frames[i].pres # "pending"

PendingPresents == { i \in 1..Len(frames) : frames[i].pres = "pending" }

Finished(f) == f.st = "done" /\ f.observed /\ f.pres = "shown"

\* The frames the model still follows: a frame that is complete, seen complete
\* by the CPU and shown takes no further part.
Retire(fs) == SelectSeq(fs, LAMBDA f : ~Finished(f))

Log(op, arg) == Append(steps, [ op |-> op, arg |-> arg ])

\* ------------------------------------------------- ownership and teardown
\* Every Rust object and Vulkan handle of the teardown is named by a triple.
Id(kind, o, i) == << kind, o, i >>

\* The Buffers, Textures and the Swapchain the application holds once
\* VulkanApp::new has returned; each was given an Rc::clone of the context.
Resources(objs) ==
    { [ type |-> "Texture",   id |-> Id("color_texture", 0, 0) ],
      [ type |-> "Texture",   id |-> Id("depth_texture", 0, 0) ],
      [ type |-> "Swapchain", id |-> Id("swapchain", 0, 0) ],
      [ type |-> "Buffer",    id |-> Id("mesh.vertices", 0, 0) ],
      [ type |-> "Buffer",    id |-> Id("mesh.indices", 0, 0) ],
      [ type |-> "Texture",   id |-> Id("mesh.texture", 0, 0) ] }
    \cup UNION { { [ type |-> "Buffer", id |-> Id("uniforms", o, i) ] :
                     i \in 0..(objs[o].uniforms - 1) } : o \in 1..Len(objs) }

\* Variant: the uniform buffers borrow the context without counting.
ContextStrongCountBorrowed(objs) ==
    1 + Cardinality({ r \in Resources(objs) : r.id[1] # "uniforms" })

\* Rc::new(context) in VulkanApp::new and one Rc::clone per resource.
ContextStrongCount(objs) == 1 + Cardinality(Resources(objs))

\* Rc::new(create_mesh(..)) and one Rc::clone(&mesh) per Object.
MeshStrongCount(objs) == 1 + Len(objs)

Call(what, id) == [ op |-> "call", what |-> what, id |-> id ]
DropItem(type, id) == [ op |-> "drop", what |-> type, id |-> id ]
Release(rc, holder) == [ op |-> "release", what |-> rc, id |-> holder ]

\* Variant: Drop for Buffer freeing the memory first.
BufferDropMemoryFirst(id) ==
    [ calls  |-> << Call("free_memory", id), Call("destroy_buffer", id) >>,
      fields |-> << Release("context", id) >> ]

\* Drop for Buffer: destroy_buffer, free_memory; then the field context.
BufferDrop(id) ==
    [ calls  |-> << Call("destroy_buffer", id), Call("free_memory", id) >>,
      fields |-> << Release("context", id) >> ]

\* Drop for Texture: the view and the image, then their memory; then the
\* field context.
TextureDrop(id) ==
    [ calls  |-> << Call("destroy_image_view", id), Call("destroy_image", id),
                    Call("free_memory", id) >>,
      fields |-> << Release("context", id) >> ]

\* A Swapchain is destroyed by Swapchain::destroy; dropping it releases its
\* context.
SwapchainDrop(id) ==
    [ calls |-> << >>, fields |-> << Release("context", id) >> ]

\* struct Mesh { vertices, indices, index_count, texture }
MeshDrop ==
    [ calls  |-> << >>,
      fields |-> << DropItem("Buffer", Id("mesh.vertices", 0, 0)),
                    DropItem("Buffer", Id("mesh.indices", 0, 0)),
                    DropItem("Texture", Id("mesh.texture", 0, 0)) >> ]

\* struct Object { mesh, uniforms, descriptor_sets, transform }
ObjectDrop(o, obj) ==
    [ calls  |-> << >>,
      fields |-> << Release("mesh", Id("object", o, 0)) >> \o
                 [ i \in 1..obj.uniforms |->
                     DropItem("Buffer", Id("uniforms", o, i - 1)) ] ]

\* Vec<Object>: the elements in order.
ObjectsDrop(objs) ==
    [ calls  |-> << >>,
      fields |-> [ o \in 1..Len(objs) |-> DropItem("Object", Id("object", o, 0)) ] ]

\* Variant: Drop for VkContext destroying the device first.
VkContextDropDeviceFirst(cb) ==
    [ calls  |-> << Call("destroy_device", Id("device", 0, 0)),
                    Call("destroy_command_pool", Id("transient_command_pool", 0, 0)),
                    Call("destroy_command_pool", Id("general_command_pool", 0, 0)),
                    Call("destroy_surface", Id("surface_khr", 0, 0)) >>
                 \o (IF cb # NONE
                     THEN << Call("destroy_debug_report_callback", Id("callback", 0, 0)) >>
                     ELSE << >>)
                 \o << Call("destroy_instance", Id("instance", 0, 0)) >>,
      fields |-> << >> ]

\* Drop for VkContext
VkContextDrop(cb) ==
    [ calls  |-> << Call("destroy_command_pool", Id("transient_command_pool", 0, 0)),
                    Call("destroy_command_pool", Id("general_command_pool", 0, 0)),
                    Call("destroy_device", Id("device", 0, 0)),
                    Call("destroy_surface", Id("surface_khr", 0, 0)) >>
                 \o (IF cb # NONE
                     THEN << Call("destroy_debug_report_callback", Id("callback", 0, 0)) >>
                     ELSE << >>)
                 \o << Call("destroy_instance", Id("instance", 0, 0)) >>,
      fields |-> << >> ]

\* The calls of cleanup_swapchain.
CleanupSwapchainCalls ==
    << Call("free_command_buffers", Id("command_buffers", 0, 0)),
       Call("destroy_pipeline", Id("pipeline", 0, 0)),
       Call("destroy_pipeline_layout", Id("pipeline_layout", 0, 0)),
       Call("destroy_render_pass", Id("render_pass", 0, 0)),
       Call("swapchain.destroy", Id("swapchain", 0, 0)) >>

\* SyncObjects::destroy
SyncObjectsDestroy(so) ==
    << Call("destroy_semaphore", Id("image_available_semaphore", so.fence, 0)),
       Call("destroy_semaphore", Id("render_finished_semaphore", so.fence, 0)),
       Call("destroy_fence", Id("fence", so.fence, 0)) >>

RECURSIVE InFlightFramesDestroyFrom(_, _)
InFlightFramesDestroyFrom(v, i) ==
    IF i >= SyncLen(v) THEN << >>
    ELSE SyncObjectsDestroy(v[i]) \o InFlightFramesDestroyFrom(v, i + 1)

\* InFlightFrames::destroy: every set, in order.
InFlightFramesDestroy(v) == InFlightFramesDestroyFrom(v, 0)

\* Variant: the field _mesh declared after the field objects.
VulkanAppFieldsMeshLast ==
    << Release("context", Id("VulkanApp", 0, 0)),
       DropItem("Texture", Id("color_texture", 0, 0)),
       DropItem("Texture", Id("depth_texture", 0, 0)),
       DropItem("Swapchain", Id("swapchain", 0, 0)),
       DropItem("Vec<Object>", Id("objects", 0, 0)),
       Release("mesh", Id("VulkanApp", 0, 0)) >>

\* struct VulkanApp: the fields whose drop does something, in declaration
\* order (context, color_texture, depth_texture, swapchain, _mesh, objects).
VulkanAppFields ==
    << Release("context", Id("VulkanApp", 0, 0)),
       DropItem("Texture", Id("color_texture", 0, 0)),
       DropItem("Texture", Id("depth_texture", 0, 0)),
       DropItem("Swapchain", Id("swapchain", 0, 0)),
       Release("mesh", Id("VulkanApp", 0, 0)),
       DropItem("Vec<Object>", Id("objects", 0, 0)) >>

\* Drop for VulkanApp: cleanup_swapchain, in_flight_frames.destroy, the
\* descriptor pool and the descriptor set layout; then the fields.
VulkanAppDrop(v) ==
    [ calls  |-> CleanupSwapchainCalls \o InFlightFramesDestroy(v) \o
                 << Call("destroy_descriptor_pool", Id("descriptor_pool", 0, 0)),
                    Call("destroy_descriptor_set_layout",
                         Id("descriptor_set_layout", 0, 0)) >>,
      fields |-> VulkanAppFields ]

\* What dropping a value runs: its Drop::drop, then the drop of its fields.
DropGlue(item, objs, cb) ==
    CASE item.what = "Buffer" -> BufferDrop(item.id)
      [] item.what = "Texture" -> TextureDrop(item.id)
      [] item.what = "Swapchain" -> SwapchainDrop(item.id)
      [] item.what = "Mesh" -> MeshDrop
      [] item.what = "Object" -> ObjectDrop(item.id[2], objs[item.id[2]])
      [] item.what = "Vec<Object>" -> ObjectsDrop(objs)
      [] item.what = "VkContext" -> VkContextDrop(cb)

\* ------------------------------------------------------------- initial state
\* VulkanApp::new: resize_dimensions None, the swapchain created from
\* [WIDTH, HEIGHT] with n images, one command buffer per image, the
\* synchronization sets with their fences created signaled.
InitApp(n) ==
    /\ pc = "process_event"
    /\ rc_ret = "df_end"
    /\ resize_dimensions = NONE
    /\ polled = [ close |-> FALSE, resized |-> NONE ]
    /\ sync_local = CreateSyncObjects[0]
    /\ image_index = 0
    /\ fence = [ f \in Fences(CreateSyncObjects) |-> FenceCreateSignaled ]
    /\ sem = [ h \in Semaphores(CreateSyncObjects) |-> 0 ]
    /\ frames = << >>
    /\ swapchain = SwapchainCreate(InitialDims, n)
    /\ command_buffers =
           CreateAndRegisterCommandBuffers(SwapchainCreate(InitialDims, n))
    /\ objects = << CreateObj(n), CreateObj(n) >>
    /\ render_pass = [ alive |-> TRUE ]
    /\ pipeline = [ alive |-> TRUE ]
    /\ pipeline_layout = [ alive |-> TRUE ]
    /\ quiet = FALSE
    /\ context_rc = ContextStrongCount(<< CreateObj(n), CreateObj(n) >>)
    /\ mesh_rc = MeshStrongCount(<< CreateObj(n), CreateObj(n) >>)
    /\ todo = << >>
    /\ destroyed = << >>
    /\ ot_pc = "idle"
    /\ command_buffer = [ state |-> "none", recorded |-> 0, executed |-> 0 ]
    /\ ot_log = << >>
    /\ ot_calls = 0
    /\ steps = << >>
    /\ acq_res = "none"
    /\ pres_res = "none"
    /\ rebuilds = 0
    /\ used = [ f \in Fences(CreateSyncObjects) |-> FALSE ]
    /\ create_dims = InitialDims
    /\ entered_minimized = FALSE

\* InFlightFrames::new(sync_objects): current_frame 0.
InFlightFramesNew(v) ==
    /\ sync_objects = v
    /\ current_frame = 0
    /\ calls = 0
    /\ ret = NONE

\* setup_debug_messenger: Some((report, callback)) with the validation
\* layers, None without them.
SetupDebugMessenger(cb) == debug_report_callback = cb

\* No call of find_memory_type is under way.
NoMemoryQuery ==
    /\ requirements = 0
    /\ mem_properties = [ memory_type_count |-> 0, memory_types |-> << >> ]
    /\ required_properties = {}
    /\ mem_type = NONE

\* No texture is being created.
NoTextureWork ==
    /\ tex_pc = "idle"
    /\ image_layouts = [ color_texture |-> << >>, depth_texture |-> << >>,
                         texture |-> << >> ]
    /\ requests = << >>
    /\ tex_size = << 1, 1 >>
    /\ tex_rebuilds = 0

\* No call of create_device_local_buffer_with_data is under way.
NoBufferUpload ==
    /\ cp_pc = "idle"
    /\ data_size = 0
    /\ staging_buffer = NONE
    /\ buffer = NONE
    /\ copy_size = NONE

\* No call of find_queue_families is under way.
NoQueueQuery ==
    /\ queue_props = << >>
    /\ queue_families = NONE

\* No call of get_max_usable_sample_count is under way.
NoSampleQuery ==
    /\ color_sample_counts = 0
    /\ depth_sample_counts = 0
    /\ msaa_samples = 0

Init ==
    /\ \E n \in 1..MaxImages : InitApp(n)
    /\ InFlightFramesNew(CreateSyncObjects)
    /\ SetupDebugMessenger(NONE)
    /\ NoMemoryQuery
    /\ NoTextureWork
    /\ NoBufferUpload
    /\ NoQueueQuery
    /\ NoSampleQuery

gpu_vars == << fence, sem, frames >>
chain_vars == << swapchain, command_buffers, create_dims, entered_minimized >>
ring_vars == << sync_objects, calls, ret >>
iter_vars == << steps, acq_res, pres_res, rebuilds >>
scene_vars == << objects >>
drop_vars == << debug_report_callback, context_rc, mesh_rc, todo, destroyed >>
shot_vars == << ot_pc, command_buffer, ot_log, ot_calls >>
mem_vars == << requirements, mem_properties, required_properties, mem_type >>
tex_vars == << tex_pc, image_layouts, requests, tex_size, tex_rebuilds >>
copy_vars == << cp_pc, data_size, staging_buffer, buffer, copy_size >>
queue_vars == << queue_props, queue_families >>
sample_vars == << color_sample_counts, depth_sample_counts, msaa_samples >>
more_vars == << tex_vars, copy_vars, queue_vars, sample_vars >>
lib_vars == << shot_vars, mem_vars, more_vars >>
pipe_vars == << render_pass, pipeline, pipeline_layout >>

\* ------------------------------------------------------------------ run
\* run: `if self.process_event() { break; } self.draw_frame()`.
\* process_event polls the queued events: the last Resized event of the
\* batch (or None) replaces resize_dimensions, CloseRequested stops the loop.
ProcessEvent ==
    /\ pc = "process_event"
    /\ \E out \in PollOutcomes :
        /\ polled' = out.delivered
        /\ resize_dimensions' = out.result.resize_dimensions
        /\ quiet' = (quiet /\ out.result.resize_dimensions = NONE)
        /\ pc' = IF out.result.should_stop THEN "run_idle" ELSE "df_next"
    /\ steps' = << >>
    /\ acq_res' = "none"
    /\ pres_res' = "none"
    /\ rebuilds' = 0
    /\ UNCHANGED << rc_ret, current_frame, sync_local, image_index, gpu_vars,
                    chain_vars, ring_vars, scene_vars, drop_vars, lib_vars, used, pipe_vars >>

\* ----------------------------------------------------------- draw_frame
\* let sync_objects = self.in_flight_frames.next().unwrap();
DfNext ==
    /\ pc = "df_next"
    /\ LET r == InFlightFramesNext(sync_objects, current_frame) IN
        /\ sync_local' = Unwrap(r.item)
        /\ current_frame' = r.current_frame
    /\ frames' = Retire(frames)
    /\ pc' = "df_wait"
    /\ UNCHANGED << rc_ret, resize_dimensions, polled, image_index, fence, sem,
                    chain_vars, ring_vars, scene_vars, drop_vars, lib_vars, iter_vars, used,
                    pipe_vars, quiet >>

\* Variant: draw_frame without the wait_for_fences call.
DfWaitFenceSkipped ==
    /\ pc = "df_wait"
    /\ steps' = Log("wait_fence", sync_local.fence)
    /\ pc' = "df_acquire"
    /\ UNCHANGED << rc_ret, resize_dimensions, polled, current_frame, sync_local,
                    image_index, fence, sem, frames, chain_vars, ring_vars, scene_vars, drop_vars, lib_vars,
                    acq_res, pres_res, rebuilds, used, pipe_vars, quiet >>

\* wait_for_fences(&[in_flight_fence], true, u64::MAX): returns once the
\* fence is signaled; the submissions that signaled it are now known complete.
DfWaitFence ==
    /\ pc = "df_wait"
    /\ fence[sync_local.fence]
    /\ frames' = Retire([ i \in 1..Len(frames) |->
                    IF frames[i].fence = sync_local.fence /\ frames[i].st = "done"
                    THEN [ frames[i] EXCEPT !.observed = TRUE ]
                    ELSE frames[i] ])
    /\ steps' = Log("wait_fence", sync_local.fence)
    /\ pc' = "df_acquire"
    /\ UNCHANGED << rc_ret, resize_dimensions, polled, current_frame, sync_local,
                    image_index, fence, sem, chain_vars, ring_vars, scene_vars, drop_vars, lib_vars,
                    acq_res, pres_res, rebuilds, used, pipe_vars, quiet >>

\* acquire_next_image(None, Some(image_available_semaphore), None):
\* Ok((index, _)) with any image of the swapchain, the suboptimal flag being
\* discarded; the semaphore's
\* signal is counted from the moment acquire returns, so that a submission
\* waiting on it may run at any later time,
\* Err(ERROR_OUT_OF_DATE_KHR) -> recreate_swapchain and return,
\* any other error -> panic.
DfAcquireOk ==
    /\ pc = "df_acquire"
    /\ \E suboptimal \in BOOLEAN, idx \in 0..(swapchain.image_count - 1) :
        /\ acq_res' = "ok"
        /\ image_index' = idx
        /\ steps' = Log("acquire", idx)
    /\ sem' = [ sem EXCEPT ![sync_local.image_available_semaphore] = @ + 1 ]
    /\ pc' = "df_reset"
    /\ UNCHANGED << rc_ret, resize_dimensions, polled, current_frame, sync_local,
                    fence, frames, chain_vars, ring_vars, scene_vars, drop_vars, lib_vars, pres_res,
                    rebuilds, used, pipe_vars, quiet >>

\* Variant: the fence is reset before the out-of-date result is handled.
DfAcquireOutOfDateResets ==
    /\ pc = "df_acquire"
    /\ acq_res' = "out_of_date"
    /\ steps' = Log("acquire", -1)
    /\ fence' = [ fence EXCEPT ![sync_local.fence] = FALSE ]
    /\ pc' = "rc_enter"
    /\ rc_ret' = "df_end"
    /\ UNCHANGED << resize_dimensions, polled, current_frame, sync_local, image_index,
                    sem, frames, chain_vars, ring_vars, scene_vars, drop_vars, lib_vars, pres_res, rebuilds, used,
                    pipe_vars, quiet >>

DfAcquireOutOfDate ==
    /\ pc = "df_acquire"
    /\ acq_res' = "out_of_date"
    /\ steps' = Log("acquire", -1)
    /\ pc' = "rc_enter"
    /\ rc_ret' = "df_end"
    /\ UNCHANGED << resize_dimensions, polled, current_frame, sync_local, image_index,
                    gpu_vars, chain_vars, ring_vars, scene_vars, drop_vars, lib_vars, pres_res, rebuilds, used,
                    pipe_vars, quiet >>

DfAcquireError ==
    /\ pc = "df_acquire"
    /\ acq_res' = "error"
    /\ pc' = "panicked"
    /\ UNCHANGED << rc_ret, resize_dimensions, polled, current_frame, sync_local,
                    image_index, gpu_vars, chain_vars, ring_vars, scene_vars, drop_vars, lib_vars, steps, pres_res,
                    rebuilds, used, pipe_vars, quiet >>

\* reset_fences(&[in_flight_fence])
DfResetFence ==
    /\ pc = "df_reset"
    /\ fence' = [ fence EXCEPT ![sync_local.fence] = FALSE ]
    /\ steps' = Log("reset_fence", sync_local.fence)
    /\ pc' = "df_update"
    /\ UNCHANGED << rc_ret, resize_dimensions, polled, current_frame, sync_local,
                    image_index, sem, frames, chain_vars, ring_vars, scene_vars, drop_vars, lib_vars,
                    acq_res, pres_res, rebuilds, used, pipe_vars, quiet >>

\* Variant: draw_frame without the update_uniform_buffers call.
DfUpdateUniformsSkipped ==
    /\ pc = "df_update"
    /\ pc' = "df_submit"
    /\ UNCHANGED << rc_ret, resize_dimensions, polled, current_frame, sync_local,
                    image_index, gpu_vars, chain_vars, ring_vars, scene_vars, drop_vars, lib_vars, iter_vars, used,
                    pipe_vars, quiet >>

\* self.update_uniform_buffers(image_index): writes the mapped uniform
\* buffer of every object at index image_index.
DfUpdateUniforms ==
    /\ pc = "df_update"
    /\ steps' = Log("update_uniforms", image_index)
    /\ pc' = "df_submit"
    /\ UNCHANGED << rc_ret, resize_dimensions, polled, current_frame, sync_local,
                    image_index, gpu_vars, chain_vars, ring_vars, scene_vars, drop_vars, lib_vars, acq_res,
                    pres_res, rebuilds, used, pipe_vars, quiet >>

\* Variant: the submission is given the fence of another slot.
SubmitInfoOtherFence(so, img) ==
    [ wait_semaphore   |-> so.image_available_semaphore,
      command_buffer   |-> img,
      signal_semaphore |-> so.render_finished_semaphore,
      fence            |-> (so.fence + 1) % MAX_FRAMES_IN_FLIGHT ]

\* Variant: the submission signals the render-finished semaphore of another slot.
SubmitInfoWrongSlot(so, img) ==
    [ wait_semaphore   |-> so.image_available_semaphore,
      command_buffer   |-> img,
      signal_semaphore |-> << "rf", (so.fence + 1) % MAX_FRAMES_IN_FLIGHT >>,
      fence            |-> so.fence ]

\* The vk::SubmitInfo and the fence draw_frame gives to queue_submit.
SubmitInfo(so, img) ==
    [ wait_semaphore   |-> so.image_available_semaphore,
      command_buffer   |-> img,
      signal_semaphore |-> so.render_finished_semaphore,
      fence            |-> so.fence ]

\* queue_submit(graphics_queue, &[submit_info], in_flight_fence)
DfSubmit ==
    /\ pc = "df_submit"
    /\ LET sub == SubmitInfo(sync_local, image_index) IN
        /\ frames' = Append(Retire(frames),
                        Frame(sync_local, sub))
        /\ used' = [ used EXCEPT ![sub.fence] = TRUE ]
    /\ steps' = Log("submit", SubmitInfo(sync_local, image_index).command_buffer)
    /\ pc' = "df_present"
    /\ UNCHANGED << rc_ret, resize_dimensions, polled, current_frame, sync_local,
                    image_index, fence, sem, chain_vars, ring_vars, scene_vars, drop_vars, lib_vars, acq_res,
                    pres_res, rebuilds, pipe_vars, quiet >>

\* The wait semaphore of the vk::PresentInfoKHR: draw_frame's signal_semaphores.
PresentWaitSemaphore(so) == so.render_finished_semaphore

\* Variant: a present-time out-of-date falls into the panic arm.
PresentOutcomeStrict(res) ==
    IF res = "suboptimal" THEN "rebuild"
    ELSE IF res = "ok" THEN "continue"
    ELSE "panic"

\* match self.swapchain.present(present_info): Ok(true) and
\* Err(ERROR_OUT_OF_DATE_KHR) recreate the swapchain, another error panics.
PresentOutcome(res) ==
    IF res = "suboptimal" \/ res = "out_of_date" THEN "rebuild"
    ELSE IF res = "ok" THEN "continue"
    ELSE "panic"

\* self.swapchain.present(present_info): the request is queued (its
\* semaphore wait executes later, also when the result is out-of-date).
DfPresent ==
    /\ pc = "df_present"
    /\ Cardinality(PendingPresents) < MaxPendingPresents
    /\ \E res \in {"ok", "suboptimal", "out_of_date", "error"} :
        /\ pres_res' = res
        /\ frames' = [ frames EXCEPT ![Len(frames)] =
                          [ @ EXCEPT !.pres = "pending",
                                     !.pres_sem = PresentWaitSemaphore(sync_local) ] ]
        /\ steps' = Log("present", image_index)
        /\ CASE PresentOutcome(res) = "rebuild" ->
                    pc' = "rc_enter" /\ rc_ret' = "df_resize_check"
             [] PresentOutcome(res) = "continue" ->
                    pc' = "df_resize_check" /\ UNCHANGED rc_ret
             [] OTHER ->
                    pc' = "panicked" /\ UNCHANGED rc_ret
    /\ UNCHANGED << resize_dimensions, polled, current_frame, sync_local, image_index,
                    fence, sem, chain_vars, ring_vars, scene_vars, drop_vars, lib_vars, acq_res, rebuilds, used,
                    pipe_vars, quiet >>

\* if self.resize_dimensions.is_some() { self.recreate_swapchain(); }
DfResizeCheck ==
    /\ pc = "df_resize_check"
    /\ IF resize_dimensions # NONE
       THEN pc' = "rc_enter" /\ rc_ret' = "df_end"
       ELSE pc' = "df_end" /\ UNCHANGED rc_ret
    /\ UNCHANGED << resize_dimensions, polled, current_frame, sync_local, image_index,
                    gpu_vars, chain_vars, ring_vars, scene_vars, drop_vars, lib_vars, iter_vars, used,
                    pipe_vars, quiet >>

\* draw_frame returns to the run loop.
DfReturn ==
    /\ pc = "df_end"
    /\ pc' = "process_event"
    /\ image_index' = 0
    /\ UNCHANGED << rc_ret, resize_dimensions, polled, current_frame, sync_local,
                    gpu_vars, chain_vars, ring_vars, scene_vars, drop_vars, lib_vars, iter_vars, used,
                    pipe_vars, quiet >>

\* ---------------------------------------------------- recreate_swapchain
\* Entry: if self.has_window_been_minimized() { while ... }
RcEnter ==
    /\ pc = "rc_enter"
    /\ rebuilds' = rebuilds + 1
    /\ entered_minimized' = HasWindowBeenMinimized(resize_dimensions)
    /\ pc' = IF HasWindowBeenMinimized(resize_dimensions)
             THEN "rc_poll" ELSE "rc_idle"
    /\ UNCHANGED << rc_ret, resize_dimensions, polled, current_frame, sync_local,
                    image_index, gpu_vars, swapchain, command_buffers,
                    create_dims, ring_vars, scene_vars, drop_vars, lib_vars, steps, acq_res, pres_res, used,
                    pipe_vars, quiet >>

\* while !self.has_window_been_maximized() { self.process_event(); }
\* The value process_event returns is dropped.
RcPoll ==
    /\ pc = "rc_poll"
    /\ \E out \in PollOutcomes :
        /\ polled' = out.delivered
        /\ resize_dimensions' = out.result.resize_dimensions
        /\ quiet' = (quiet /\ out.result.resize_dimensions = NONE)
        /\ pc' = IF HasWindowBeenMaximized(out.result.resize_dimensions)
                 THEN "rc_idle" ELSE "rc_poll"
    /\ UNCHANGED << rc_ret, current_frame, sync_local, image_index, gpu_vars,
                    chain_vars, ring_vars, scene_vars, drop_vars, lib_vars, iter_vars, used,
                    pipe_vars >>

DeviceIdle == AllDone /\ NoPresentPending

\* Variant: recreate_swapchain without device_wait_idle.
RcWaitIdleSkipped ==
    /\ pc = "rc_idle"
    /\ pc' = "rc_cleanup"
    /\ UNCHANGED << rc_ret, resize_dimensions, polled, current_frame, sync_local,
                    image_index, gpu_vars, chain_vars, ring_vars, scene_vars, drop_vars, lib_vars, iter_vars, used,
                    pipe_vars, quiet >>

\* device_wait_idle(): returns once every queue operation has completed.
RcWaitIdle ==
    /\ pc = "rc_idle"
    /\ DeviceIdle
    /\ pc' = "rc_cleanup"
    /\ UNCHANGED << rc_ret, resize_dimensions, polled, current_frame, sync_local,
                    image_index, gpu_vars, chain_vars, ring_vars, scene_vars, drop_vars, lib_vars, iter_vars, used,
                    pipe_vars, quiet >>

\* Variant: cleanup_swapchain without free_command_buffers.
CleanupSwapchainKeepsBuffers ==
    /\ pipeline' = [ pipeline EXCEPT !.alive = FALSE ]
    /\ pipeline_layout' = [ pipeline_layout EXCEPT !.alive = FALSE ]
    /\ render_pass' = [ render_pass EXCEPT !.alive = FALSE ]
    /\ swapchain' = [ swapchain EXCEPT !.alive = FALSE ]
    /\ UNCHANGED command_buffers

\* cleanup_swapchain: frees the command buffers, destroys the pipeline, its
\* layout, the render pass and the swapchain.
CleanupSwapchain ==
    /\ command_buffers' = [ command_buffers EXCEPT !.alive = FALSE ]
    /\ pipeline' = [ pipeline EXCEPT !.alive = FALSE ]
    /\ pipeline_layout' = [ pipeline_layout EXCEPT !.alive = FALSE ]
    /\ render_pass' = [ render_pass EXCEPT !.alive = FALSE ]
    /\ swapchain' = [ swapchain EXCEPT !.alive = FALSE ]

RcCleanup ==
    /\ pc = "rc_cleanup"
    /\ CleanupSwapchain
    /\ pc' = "rc_create"
    /\ UNCHANGED << rc_ret, resize_dimensions, polled, current_frame, sync_local,
                    image_index, gpu_vars, create_dims, entered_minimized,
                    ring_vars, scene_vars, drop_vars, lib_vars, iter_vars, used, quiet >>

\* register_draw_commands(.., index, .., object) reads
\* object.descriptor_sets(index), a Vec index that panics out of range.
\* create_and_register_command_buffers calls it for every index below the
\* image count and every object.
RegisterDrawCommandsPanics(image_count, objs) ==
    \E index \in 0..(image_count - 1), o \in 1..Len(objs) :
        index >= objs[o].descriptor_sets

\* The rest of recreate_swapchain: the dimensions, Swapchain::create,
\* create_and_register_command_buffers (one command buffer per image) and
\* the assignments to the fields.  self.objects is passed on as it is; the
\* panic of an out-of-range index ends the process at "rc_panicked".
RcCreate ==
    /\ pc = "rc_create"
    /\ \E n \in 1..MaxImages :
        LET d == RecreateDimensions(resize_dimensions, swapchain) IN
        /\ create_dims' = d
        /\ IF RegisterDrawCommandsPanics(n, objects)
           THEN /\ pc' = "rc_panicked"
                /\ UNCHANGED << swapchain, command_buffers, rc_ret,
                                entered_minimized, pipe_vars, quiet >>
           ELSE /\ swapchain' = SwapchainCreate(d, n)
                /\ render_pass' = [ alive |-> TRUE ]
                /\ pipeline' = [ alive |-> TRUE ]
                /\ pipeline_layout' = [ alive |-> TRUE ]
                /\ command_buffers' =
                       CreateAndRegisterCommandBuffers(SwapchainCreate(d, n))
                /\ quiet' = TRUE
                /\ entered_minimized' = FALSE
                /\ pc' = rc_ret
                /\ rc_ret' = "df_end"
    /\ UNCHANGED << resize_dimensions, polled, current_frame, sync_local,
                    image_index, gpu_vars, ring_vars, scene_vars, drop_vars, lib_vars, iter_vars, used >>

\* ------------------------------------------------------------- shutdown
\* run, after the loop: device_wait_idle()
RunWaitIdle ==
    /\ pc = "run_idle"
    /\ DeviceIdle
    /\ pc' = "drop"
    /\ UNCHANGED << rc_ret, resize_dimensions, polled, current_frame, sync_local,
                    image_index, gpu_vars, chain_vars, ring_vars, scene_vars, drop_vars, lib_vars, iter_vars, used,
                    pipe_vars, quiet >>

\* Drop for VulkanApp: cleanup_swapchain, then the synchronization objects,
\* the descriptor pool and the descriptor set layout.  The fields are
\* dropped after it, in declaration order.
DropApp ==
    /\ pc = "drop"
    /\ CleanupSwapchain
    /\ destroyed' = destroyed \o VulkanAppDrop(sync_objects).calls
    /\ todo' = VulkanAppDrop(sync_objects).fields
    /\ pc' = "exited"
    /\ UNCHANGED << rc_ret, resize_dimensions, polled, current_frame, sync_local,
                    image_index, gpu_vars, create_dims, entered_minimized,
                    ring_vars, scene_vars, iter_vars, used, quiet,
                    debug_report_callback, context_rc, mesh_rc, lib_vars >>

\* ------------------------------------------- GPU and presentation engine
\* A queued submission executes: it consumes its wait semaphore, runs its
\* command buffer, signals its signal semaphore and its fence.
GpuComplete(i) ==
    /\ frames[i].st = "queued"
    /\ sem[frames[i].wait_sem] > 0
    /\ frames' = [ frames EXCEPT ![i].st = "done", ![i].uses = {} ]
    /\ sem' = [ h \in DOMAIN sem |->
                  sem[h] - (IF h = frames[i].wait_sem THEN 1 ELSE 0)
                         + (IF h = frames[i].signal_sem THEN 1 ELSE 0) ]
    /\ fence' = [ fence EXCEPT ![frames[i].fence] = TRUE ]
    /\ UNCHANGED << pc, rc_ret, resize_dimensions, polled, current_frame, sync_local,
                    image_index, chain_vars, ring_vars, scene_vars, drop_vars, lib_vars, iter_vars, used,
                    pipe_vars, quiet >>

\* Present requests are processed in issue order: the oldest pending one
\* consumes its wait semaphore and the image is shown.
PresentExec(i) ==
    /\ i \in PendingPresents
    /\ \A j \in PendingPresents : i <= j
    /\ sem[frames[i].pres_sem] > 0
    /\ frames' = [ frames EXCEPT ![i].pres = "shown" ]
    /\ sem' = [ sem EXCEPT ![frames[i].pres_sem] = @ - 1 ]
    /\ UNCHANGED << pc, rc_ret, resize_dimensions, polled, current_frame, sync_local,
                    image_index, fence, chain_vars, ring_vars, scene_vars, drop_vars, lib_vars, iter_vars, used,
                    pipe_vars, quiet >>

\* ------------------------------------------------------- specification
Next ==
    \/ ProcessEvent
    \/ DfNext
    \/ DfWaitFence
    \/ DfAcquireOk
    \/ DfAcquireOutOfDate
    \/ DfAcquireError
    \/ DfResetFence
    \/ DfUpdateUniforms
    \/ DfSubmit
    \/ DfPresent
    \/ DfResizeCheck
    \/ DfReturn
    \/ RcEnter
    \/ RcPoll
    \/ RcWaitIdle
    \/ RcCleanup
    \/ RcCreate
    \/ RunWaitIdle
    \/ DropApp
    \/ \E i \in 1..Len(frames) : GpuComplete(i)
    \/ \E i \in 1..Len(frames) : PresentExec(i)

Spec == Init /\ [][Next]_vars

\* The control thread takes its next step: it runs whenever the call it is
\* at can return.
CpuStep ==
    \/ ProcessEvent
    \/ DfNext
    \/ DfWaitFence
    \/ DfAcquireOk
    \/ DfAcquireOutOfDate
    \/ DfAcquireError
    \/ DfResetFence
    \/ DfUpdateUniforms
    \/ DfSubmit
    \/ DfPresent
    \/ DfResizeCheck
    \/ DfReturn
    \/ RcEnter
    \/ RcPoll
    \/ RcWaitIdle
    \/ RcCleanup
    \/ RcCreate
    \/ RunWaitIdle
    \/ DropApp

\* The thread keeps running, the GPU completes every submission it can
\* execute and the presentation engine processes every present request.
Fairness ==
    /\ WF_vars(CpuStep)
    /\ WF_vars(\E i \in 1..Len(frames) : GpuComplete(i))
    /\ WF_vars(\E i \in 1..Len(frames) : PresentExec(i))

SpecFair == Init /\ [][Next]_vars /\ Fairness

\* ------------------------------------------------ the ring on its own
\* A ring of any number of synchronization sets, and repeated calls of next.
InitRing ==
    /\ InitApp(1)
    /\ SetupDebugMessenger(NONE)
    /\ NoMemoryQuery
    /\ NoTextureWork
    /\ NoBufferUpload
    /\ NoQueueQuery
    /\ NoSampleQuery
    /\ \E n \in 1..MaxSlots : InFlightFramesNew(SyncVec(n))

RingNext ==
    /\ calls < MaxCalls
    /\ LET r == InFlightFramesNext(sync_objects, current_frame) IN
        /\ ret' = r.item
        /\ current_frame' = r.current_frame
    /\ calls' = calls + 1
    /\ UNCHANGED << pc, rc_ret, resize_dimensions, polled, sync_objects, sync_local,
                    image_index, gpu_vars, chain_vars, iter_vars, used,
                    scene_vars, drop_vars, lib_vars, pipe_vars, quiet >>

SpecRing == InitRing /\ [][RingNext]_vars

\* ------------------------------------------------------- the teardown
\* The variables of the frame loop.
app_vars == << pc, rc_ret, resize_dimensions, polled, current_frame, sync_local,
               image_index, gpu_vars, chain_vars, ring_vars, scene_vars,
               iter_vars, used, pipe_vars, quiet >>

\* The next value is dropped: its Drop::drop runs, its fields follow.
TdDrop ==
    /\ todo # << >>
    /\ Head(todo).op = "drop"
    /\ LET g == DropGlue(Head(todo), objects, debug_report_callback) IN
        /\ destroyed' = destroyed \o g.calls
        /\ todo' = g.fields \o Tail(todo)
    /\ UNCHANGED << app_vars, debug_report_callback, context_rc, mesh_rc,
                    lib_vars >>

\* An Rc<VkContext> is dropped: the last one drops the VkContext.
TdReleaseContext ==
    /\ todo # << >>
    /\ Head(todo).op = "release" /\ Head(todo).what = "context"
    /\ context_rc' = context_rc - 1
    /\ destroyed' = Append(destroyed, Head(todo))
    /\ todo' = (IF context_rc - 1 = 0
                THEN << DropItem("VkContext", Id("context", 0, 0)) >>
                ELSE << >>) \o Tail(todo)
    /\ UNCHANGED << app_vars, debug_report_callback, mesh_rc, lib_vars >>

\* An Rc<Mesh> is dropped: the last one drops the Mesh.
TdReleaseMesh ==
    /\ todo # << >>
    /\ Head(todo).op = "release" /\ Head(todo).what = "mesh"
    /\ mesh_rc' = mesh_rc - 1
    /\ destroyed' = Append(destroyed, Head(todo))
    /\ todo' = (IF mesh_rc - 1 = 0
                THEN << DropItem("Mesh", Id("mesh", 0, 0)) >>
                ELSE << >>) \o Tail(todo)
    /\ UNCHANGED << app_vars, debug_report_callback, context_rc, lib_vars >>

\* main: VulkanApp::new().run(), the window closed at the first poll, and
\* the drop of the application.
InitDrop ==
    /\ \E n \in 1..MaxImages : InitApp(n)
    /\ InFlightFramesNew(CreateSyncObjects)
    /\ \E cb \in { NONE, << "Some", "callback" >> } : SetupDebugMessenger(cb)
    /\ NoMemoryQuery
    /\ NoTextureWork
    /\ NoBufferUpload
    /\ NoQueueQuery
    /\ NoSampleQuery

NextDrop ==
    \/ ProcessEvent
    \/ RunWaitIdle
    \/ DropApp
    \/ TdDrop
    \/ TdReleaseContext
    \/ TdReleaseMesh

SpecDrop == InitDrop /\ [][NextDrop]_vars

\* ===================================================================
\* VkContext::execute_one_time_commands
\* ===================================================================

\* One device or queue call of execute_one_time_commands with the arguments
\* that matter.
OtCall(op, args) == [ op |-> op, args |-> args ]

\* A caller (Buffer::copy, a texture upload or layout transition) enters
\* execute_one_time_commands.
OtEnter ==
    /\ ot_pc \in { "idle", "returned" }
    /\ ot_calls < MaxOneTimeCalls
    /\ ot_calls' = ot_calls + 1
    /\ ot_pc' = "allocate"
    /\ ot_log' = << >>
    /\ command_buffer' = [ state |-> "none", recorded |-> 0, executed |-> 0 ]
    /\ UNCHANGED << app_vars, drop_vars, mem_vars, more_vars >>

\* allocate_command_buffers: one primary buffer from the transient pool.
OtAllocate ==
    /\ ot_pc = "allocate"
    /\ ot_log' = Append(ot_log, OtCall("allocate_command_buffers",
                     << "transient_command_pool", "PRIMARY", "1" >>))
    /\ command_buffer' = [ command_buffer EXCEPT !.state = "initial" ]
    /\ ot_pc' = "begin"
    /\ UNCHANGED << app_vars, drop_vars, mem_vars, more_vars, ot_calls >>

\* begin_command_buffer with the ONE_TIME_SUBMIT usage flag.
OtBegin ==
    /\ ot_pc = "begin"
    /\ ot_log' = Append(ot_log, OtCall("begin_command_buffer",
                     << "ONE_TIME_SUBMIT" >>))
    /\ command_buffer' = [ command_buffer EXCEPT !.state = "recording" ]
    /\ ot_pc' = "body"
    /\ UNCHANGED << app_vars, drop_vars, mem_vars, more_vars, ot_calls >>

\* executor(command_buffer): the caller's body records its commands.
OtExecutor ==
    /\ ot_pc = "body"
    /\ \E k \in 0..MaxCommands :
        command_buffer' = [ command_buffer EXCEPT !.recorded = k ]
    /\ ot_log' = Append(ot_log, OtCall("executor", << >>))
    /\ ot_pc' = "end"
    /\ UNCHANGED << app_vars, drop_vars, mem_vars, more_vars, ot_calls >>

\* end_command_buffer.
OtEnd ==
    /\ ot_pc = "end"
    /\ ot_log' = Append(ot_log, OtCall("end_command_buffer", << >>))
    /\ command_buffer' = [ command_buffer EXCEPT !.state = "executable" ]
    /\ ot_pc' = "submit"
    /\ UNCHANGED << app_vars, drop_vars, mem_vars, more_vars, ot_calls >>

\* queue_submit to the graphics queue: the submit info names no semaphore
\* and the fence is null.
OtSubmit ==
    /\ ot_pc = "submit"
    /\ ot_log' = Append(ot_log, OtCall("queue_submit",
                     << "graphics_queue", "no_wait_semaphores",
                        "no_signal_semaphores", "null_fence" >>))
    /\ command_buffer' = [ command_buffer EXCEPT !.state = "pending" ]
    /\ ot_pc' = "wait"
    /\ UNCHANGED << app_vars, drop_vars, mem_vars, more_vars, ot_calls >>

\* A queue_wait_idle that returns at once.
OtWaitIdleNoWait ==
    /\ ot_pc = "wait"
    /\ ot_log' = Append(ot_log, OtCall("queue_wait_idle",
                     << "graphics_queue" >>))
    /\ ot_pc' = "free"
    /\ UNCHANGED << app_vars, drop_vars, mem_vars, more_vars, ot_calls, command_buffer >>

\* queue_wait_idle on the graphics queue: returns once the queue has no
\* pending work.
OtWaitIdle ==
    /\ ot_pc = "wait"
    /\ command_buffer.state # "pending"
    /\ ot_log' = Append(ot_log, OtCall("queue_wait_idle",
                     << "graphics_queue" >>))
    /\ ot_pc' = "free"
    /\ UNCHANGED << app_vars, drop_vars, mem_vars, more_vars, ot_calls, command_buffer >>

\* free_command_buffers back to the transient pool, then return.
OtFree ==
    /\ ot_pc = "free"
    /\ ot_log' = Append(ot_log, OtCall("free_command_buffers",
                     << "transient_command_pool" >>))
    /\ command_buffer' = [ command_buffer EXCEPT !.state =
            IF command_buffer.state = "pending" THEN "freed_pending"
                                                ELSE "freed" ]
    /\ ot_pc' = "returned"
    /\ UNCHANGED << app_vars, drop_vars, mem_vars, more_vars, ot_calls >>

\* The graphics queue executes one recorded command of the submission.
OtGpuExecute ==
    /\ command_buffer.state = "pending"
    /\ command_buffer.executed < command_buffer.recorded
    /\ command_buffer' = [ command_buffer EXCEPT !.executed = @ + 1 ]
    /\ UNCHANGED << app_vars, drop_vars, mem_vars, more_vars, ot_pc, ot_log, ot_calls >>

\* The graphics queue retires the submission: every command has executed.
OtGpuComplete ==
    /\ command_buffer.state = "pending"
    /\ command_buffer.executed = command_buffer.recorded
    /\ command_buffer' = [ command_buffer EXCEPT !.state = "invalid" ]
    /\ UNCHANGED << app_vars, drop_vars, mem_vars, more_vars, ot_pc, ot_log, ot_calls >>

NextOneTime ==
    \/ OtEnter
    \/ OtAllocate
    \/ OtBegin
    \/ OtExecutor
    \/ OtEnd
    \/ OtSubmit
    \/ OtWaitIdle
    \/ OtFree
    \/ OtGpuExecute
    \/ OtGpuComplete

SpecOneTime == Init /\ [][NextOneTime]_vars

\* ===================================================================
\* find_memory_type
\* ===================================================================

\* vk::MemoryPropertyFlags bits the program asks for.
MemoryPropertyFlags == { "DEVICE_LOCAL", "HOST_VISIBLE" }

\* requirements.memory_type_bits & (1 << i) != 0
BitSet(bits, i) == (bits \div (2 ^ i)) % 2 = 1

\* property_flags.contains(required)
Contains(property_flags, required) == required \subseteq property_flags

Index(i) == << "index", i >>
Panic == << "panic" >>

\* A search that runs from the last memory type down to the first.
RECURSIVE FindMemoryTypeDown(_, _, _, _)
FindMemoryTypeDown(bits, props, required, i) ==
    IF i < 0
    THEN Panic
    ELSE IF /\ BitSet(bits, i)
            /\ Contains(props.memory_types[i + 1], required)
         THEN Index(i)
         ELSE FindMemoryTypeDown(bits, props, required, i - 1)

FindMemoryTypeHighest(bits, props, required) ==
    FindMemoryTypeDown(bits, props, required, props.memory_type_count - 1)

\* The loop of find_memory_type from index i on; memory_types[i] of the
\* code is memory_types[i + 1] here.
RECURSIVE FindMemoryTypeFrom(_, _, _, _)
FindMemoryTypeFrom(bits, props, required, i) ==
    IF i >= props.memory_type_count
    THEN Panic
    ELSE IF /\ BitSet(bits, i)
            /\ Contains(props.memory_types[i + 1], required)
         THEN Index(i)
         ELSE FindMemoryTypeFrom(bits, props, required, i + 1)

\* A search that ignores the property flags.
RECURSIVE FindMemoryTypeBitsOnlyFrom(_, _, _)
FindMemoryTypeBitsOnlyFrom(bits, props, i) ==
    IF i >= props.memory_type_count
    THEN Panic
    ELSE IF BitSet(bits, i)
         THEN Index(i)
         ELSE FindMemoryTypeBitsOnlyFrom(bits, props, i + 1)

FindMemoryTypeBitsOnly(bits, props, required) ==
    FindMemoryTypeBitsOnlyFrom(bits, props, 0)

FindMemoryType(bits, props, required) ==
    FindMemoryTypeFrom(bits, props, required, 0)

\* The inputs of a call: a requirement bitmask, the device's memory types
\* (memory_type_count of the array's entries are valid) and the desired
\* property flags.
InitMem ==
    /\ InitApp(1)
    /\ InFlightFramesNew(CreateSyncObjects)
    /\ SetupDebugMessenger(NONE)
    /\ requirements \in 0..(2 ^ MaxMemoryTypes - 1)
    /\ mem_properties \in
           [ memory_type_count : 0..MaxMemoryTypes,
             memory_types : [ 1..MaxMemoryTypes -> SUBSET MemoryPropertyFlags ] ]
    /\ required_properties \in SUBSET MemoryPropertyFlags
    /\ mem_type = NONE
    /\ NoTextureWork
    /\ NoBufferUpload
    /\ NoQueueQuery
    /\ NoSampleQuery

\* The call, as Buffer::create makes it.
FindMemoryTypeCall ==
    /\ mem_type = NONE
    /\ mem_type' = FindMemoryType(requirements, mem_properties,
                                  required_properties)
    /\ UNCHANGED << app_vars, drop_vars, shot_vars, more_vars, requirements,
                    mem_properties, required_properties >>

NextMem == FindMemoryTypeCall

SpecMem == InitMem /\ [][NextMem]_vars

\* ===================================================================
\* Textures and their layout transitions
\* ===================================================================

\* (n as f32).log2().floor() for n >= 1
RECURSIVE Log2Floor(_)
Log2Floor(n) == IF n <= 1 THEN 0 ELSE 1 + Log2Floor(n \div 2)

\* ((width.min(height) as f32).log2().floor() + 1.0) as u32
MaxMipLevels(size) == Log2Floor(Min(size[1], size[2])) + 1

\* Image::create: an image of mip_levels levels, each in layout UNDEFINED.
ImageCreate(mip_levels) == [ k \in 1..mip_levels |-> "UNDEFINED" ]

\* image.transition_image_layout(mip_levels, format, old, new): the barrier
\* moves the first mip_levels levels of the image to the new layout.
TransitionImageLayout(layouts, mip_levels, new) ==
    [ k \in 1..Len(layouts) |->
        IF k <= mip_levels THEN new ELSE layouts[k] ]

TransitionRequest(image, mip_levels, t) ==
    [ image |-> image, mip_levels |-> mip_levels, old |-> t.old, new |-> t.new ]

\* The layouts create_color_texture passes to transition_image_layout.
ColorTextureTransition ==
    [ old |-> "UNDEFINED", new |-> "COLOR_ATTACHMENT_OPTIMAL" ]

\* The layouts create_depth_texture passes to transition_image_layout.
DepthTextureTransition ==
    [ old |-> "UNDEFINED", new |-> "DEPTH_STENCIL_ATTACHMENT_OPTIMAL" ]

\* Variant: the upload asks for the shader-read layout at once.
TextureUploadToShaderRead ==
    [ old |-> "UNDEFINED", new |-> "SHADER_READ_ONLY_OPTIMAL" ]

\* The layouts create_texture_image passes to transition_image_layout.
TextureUploadTransition ==
    [ old |-> "UNDEFINED", new |-> "TRANSFER_DST_OPTIMAL" ]

except_tex == << app_vars, drop_vars, shot_vars, mem_vars, copy_vars,
                 queue_vars, sample_vars >>

\* create_color_texture, in VulkanApp::new and in recreate_swapchain.
CreateColorTexture ==
    /\ tex_pc \in { "new_color", "rc_color" }
    /\ requests' = Append(requests,
            TransitionRequest("color_texture", 1, ColorTextureTransition))
    /\ image_layouts' = [ image_layouts EXCEPT !.color_texture =
            TransitionImageLayout(ImageCreate(1), 1, ColorTextureTransition.new) ]
    /\ tex_pc' = IF tex_pc = "new_color" THEN "new_depth" ELSE "rc_depth"
    /\ UNCHANGED << except_tex, tex_size, tex_rebuilds >>

\* create_depth_texture, in VulkanApp::new and in recreate_swapchain.
CreateDepthTexture ==
    /\ tex_pc \in { "new_depth", "rc_depth" }
    /\ requests' = Append(requests,
            TransitionRequest("depth_texture", 1, DepthTextureTransition))
    /\ image_layouts' = [ image_layouts EXCEPT !.depth_texture =
            TransitionImageLayout(ImageCreate(1), 1, DepthTextureTransition.new) ]
    /\ tex_pc' = IF tex_pc = "new_depth" THEN "new_texture" ELSE "ready"
    /\ UNCHANGED << except_tex, tex_size, tex_rebuilds >>

\* create_texture_image up to copy_buffer: the image is created with
\* max_mip_levels levels and moved to the transfer-destination layout.
CreateTextureImage ==
    /\ tex_pc = "new_texture"
    /\ LET max_mip_levels == MaxMipLevels(tex_size) IN
        /\ requests' = Append(requests,
                TransitionRequest("texture", max_mip_levels,
                                  TextureUploadTransition))
        /\ image_layouts' = [ image_layouts EXCEPT !.texture =
                TransitionImageLayout(ImageCreate(max_mip_levels),
                                      max_mip_levels,
                                      TextureUploadTransition.new) ]
    /\ tex_pc' = "mipmaps"
    /\ UNCHANGED << except_tex, tex_size, tex_rebuilds >>

\* image.generate_mipmaps: every level ends in the shader-read layout.
GenerateMipmaps ==
    /\ tex_pc = "mipmaps"
    /\ image_layouts' = [ image_layouts EXCEPT !.texture =
            [ k \in 1..Len(@) |-> "SHADER_READ_ONLY_OPTIMAL" ] ]
    /\ tex_pc' = "ready"
    /\ UNCHANGED << except_tex, requests, tex_size, tex_rebuilds >>

\* recreate_swapchain creates the color and the depth texture anew.
RecreateTextures ==
    /\ tex_pc = "ready"
    /\ tex_rebuilds < MaxTextureRebuilds
    /\ tex_rebuilds' = tex_rebuilds + 1
    /\ tex_pc' = "rc_color"
    /\ UNCHANGED << except_tex, image_layouts, requests, tex_size >>

\* VulkanApp::new before its first texture; the image file has any size.
InitTextures ==
    /\ InitApp(1)
    /\ InFlightFramesNew(CreateSyncObjects)
    /\ SetupDebugMessenger(NONE)
    /\ requirements = 0
    /\ mem_properties = [ memory_type_count |-> 0, memory_types |-> << >> ]
    /\ required_properties = {}
    /\ mem_type = NONE
    /\ NoBufferUpload
    /\ NoQueueQuery
    /\ NoSampleQuery
    /\ tex_pc = "new_color"
    /\ image_layouts = [ color_texture |-> << >>, depth_texture |-> << >>,
                         texture |-> << >> ]
    /\ requests = << >>
    /\ tex_size \in (1..MaxTextureSize) \X (1..MaxTextureSize)
    /\ tex_rebuilds = 0

NextTextures ==
    \/ CreateColorTexture
    \/ CreateDepthTexture
    \/ CreateTextureImage
    \/ GenerateMipmaps
    \/ RecreateTextures

SpecTextures == InitTextures /\ [][NextTextures]_vars

\* ===================================================================
\* create_device_local_buffer_with_data
\* ===================================================================

\* size_of::<T>() of the element types the program uploads: u32 indices and
\* Vertex (eight f32).
ElementSizes == { 4, 32 }

\* get_buffer_memory_requirements(buffer).size for a buffer of size bytes:
\* at least size, rounded up by the driver as it sees fit.
MemoryRequirementSizes(size) == size..(size + MaxPadding)

\* Buffer::create(context, size, ..): the vk::Buffer is created with size
\* bytes; the field size of the result is mem_requirements.size.
BufferCreate(size, mem_requirements_size) ==
    [ buffer_size |-> size, size |-> mem_requirements_size ]

except_copy == << app_vars, drop_vars, shot_vars, mem_vars, tex_vars,
                  queue_vars, sample_vars >>

\* let staging_buffer = Buffer::create(.., size, TRANSFER_SRC, ..), and the
\* data mapped and copied into it.
UploadStaging ==
    /\ cp_pc = "staging"
    /\ \E reported \in MemoryRequirementSizes(data_size) :
          staging_buffer' = BufferCreate(data_size, reported)
    /\ cp_pc' = "buffer"
    /\ UNCHANGED << except_copy, data_size, buffer, copy_size >>

\* let buffer = Buffer::create(.., size, TRANSFER_DST | usage, ..)
UploadBuffer ==
    /\ cp_pc = "buffer"
    /\ \E reported \in MemoryRequirementSizes(data_size) :
          buffer' = BufferCreate(data_size, reported)
    /\ cp_pc' = "copy"
    /\ UNCHANGED << except_copy, data_size, staging_buffer, copy_size >>

\* buffer.copy(&staging_buffer, staging_buffer.size)
UploadCopy ==
    /\ cp_pc = "copy"
    /\ copy_size' = staging_buffer.size
    /\ cp_pc' = "done"
    /\ UNCHANGED << except_copy, data_size, staging_buffer, buffer >>

\* The call: data of any length and element size.
InitUpload ==
    /\ InitApp(1)
    /\ InFlightFramesNew(CreateSyncObjects)
    /\ SetupDebugMessenger(NONE)
    /\ requirements = 0
    /\ mem_properties = [ memory_type_count |-> 0, memory_types |-> << >> ]
    /\ required_properties = {}
    /\ mem_type = NONE
    /\ NoTextureWork
    /\ NoQueueQuery
    /\ NoSampleQuery
    /\ cp_pc = "staging"
    /\ \E len \in 1..MaxDataLen, size_of \in ElementSizes :
          data_size = len * size_of
    /\ staging_buffer = NONE
    /\ buffer = NONE
    /\ copy_size = NONE

NextUpload ==
    \/ UploadStaging
    \/ UploadBuffer
    \/ UploadCopy

SpecUpload == InitUpload /\ [][NextUpload]_vars

\* ===================================================================
\* find_queue_families
\* ===================================================================

\* A queue family as the device reports it; present is what
\* get_physical_device_surface_support answers for the family's index.
QueueFamilyProperties ==
    [ queue_count : 0..MaxQueues, graphics : BOOLEAN, present : BOOLEAN ]

\* Option::Some
Some(x) == << "Some", x >>

\* The loop of find_queue_families from position index of
\* props.iter().filter(|f| f.queue_count > 0).enumerate(): family is the
\* index-th family that has queues, present support is asked for the
\* device's family number index.
RECURSIVE FindQueueFamiliesFrom(_, _, _, _, _)
FindQueueFamiliesFrom(filtered, all, index, graphics, present) ==
    IF index >= Len(filtered) \/ (graphics # NONE /\ present # NONE)
    THEN << graphics, present >>
    ELSE LET family == filtered[index + 1]
             present_support == all[index + 1].present
         IN FindQueueFamiliesFrom(filtered, all, index + 1,
                IF family.graphics /\ graphics = NONE
                THEN Some(index) ELSE graphics,
                IF present_support /\ present = NONE
                THEN Some(index) ELSE present)

\* find_queue_families
FindQueueFamilies(all) ==
    FindQueueFamiliesFrom(SelectSeq(all, LAMBDA f : f.queue_count > 0),
                          all, 0, NONE, NONE)

\* A device with any list of queue families.
InitQueues ==
    /\ InitApp(1)
    /\ InFlightFramesNew(CreateSyncObjects)
    /\ SetupDebugMessenger(NONE)
    /\ requirements = 0
    /\ mem_properties = [ memory_type_count |-> 0, memory_types |-> << >> ]
    /\ required_properties = {}
    /\ mem_type = NONE
    /\ NoTextureWork
    /\ NoBufferUpload
    /\ NoSampleQuery
    /\ queue_props \in
          UNION { [ 1..n -> QueueFamilyProperties ] : n \in 0..MaxFamilies }
    /\ queue_families = NONE

\* The call, as is_device_suitable and pick_physical_device make it.
FindQueueFamiliesCall ==
    /\ queue_families = NONE
    /\ queue_families' = FindQueueFamilies(queue_props)
    /\ UNCHANGED << app_vars, drop_vars, shot_vars, mem_vars, tex_vars,
                    copy_vars, sample_vars, queue_props >>

NextQueues == FindQueueFamiliesCall

SpecQueues == InitQueues /\ [][NextQueues]_vars

\* ===================================================================
\* VkContext::get_max_usable_sample_count
\* ===================================================================

\* vk::SampleCountFlags, highest first.
SampleCountFlags == << TYPE_64, TYPE_32, TYPE_16, TYPE_8, TYPE_4, TYPE_2 >>

\* Every value of a sample-count bitmask.
SampleCountMasks == 0..(2 * TYPE_64 - 1)

\* flags.contains(flag) for a flag of one bit.
ContainsFlag(flags, flag) == (flags \div flag) % 2 = 1

\* The if / else if chain from the k-th flag on.
RECURSIVE FirstContained(_, _)
FirstContained(sample_counts, k) ==
    IF k > Len(SampleCountFlags) THEN TYPE_1
    ELSE IF ContainsFlag(sample_counts, SampleCountFlags[k])
         THEN SampleCountFlags[k]
         ELSE FirstContained(sample_counts, k + 1)

\* get_max_usable_sample_count: color_sample_counts.min(depth_sample_counts)
\* is Ord::min of the two flag values, the numerically smaller one.
GetMaxUsableSampleCount(color, depth) ==
    LET sample_counts == Min(color, depth) IN
    FirstContained(sample_counts, 1)

\* A device with any pair of limits.
InitSamples ==
    /\ InitApp(1)
    /\ InFlightFramesNew(CreateSyncObjects)
    /\ SetupDebugMessenger(NONE)
    /\ requirements = 0
    /\ mem_properties = [ memory_type_count |-> 0, memory_types |-> << >> ]
    /\ required_properties = {}
    /\ mem_type = NONE
    /\ NoTextureWork
    /\ NoBufferUpload
    /\ NoQueueQuery
    /\ color_sample_counts \in SampleCountMasks
    /\ depth_sample_counts \in SampleCountMasks
    /\ msaa_samples = 0

\* let msaa_samples = context.get_max_usable_sample_count();
GetMaxUsableSampleCountCall ==
    /\ msaa_samples = 0
    /\ msaa_samples' = GetMaxUsableSampleCount(color_sample_counts,
                                               depth_sample_counts)
    /\ UNCHANGED << app_vars, drop_vars, shot_vars, mem_vars, tex_vars,
                    copy_vars, queue_vars, color_sample_counts,
                    depth_sample_counts >>

NextSamples == GetMaxUsableSampleCountCall

SpecSamples == InitSamples /\ [][NextSamples]_vars

\* ===================================================================
\* Properties
\* ===================================================================

\* The calls of a draw_frame iteration, in the order the protocol gives.
StepOrder ==
    << "wait_fence", "acquire", "reset_fence", "update_uniforms", "submit",
       "present" >>

\* C1: every iteration of draw_frame that acquire's out-of-date does not
\* abort makes its calls in exactly this order: wait on the slot's fence,
\* acquire, reset that same fence, update the uniforms of the acquired image
\* index, submit the command buffer of that index, present that index.  At
\* every moment the calls made so far are the first ones of that order, and
\* an iteration that ends without an acquire-time out-of-date has made all six.
C1_StepOrder ==
    /\ Len(steps) <= Len(StepOrder)
    /\ \A i \in 1..Len(steps) : steps[i].op = StepOrder[i]
    /\ Len(steps) >= 1 => steps[1].arg = sync_local.fence
    /\ Len(steps) >= 3 => steps[3].arg = steps[1].arg
    /\ \A i \in 4..Len(steps) : steps[i].arg = steps[2].arg
    /\ (pc = "df_end" /\ acq_res # "out_of_date") => Len(steps) = Len(StepOrder)

C1_Witness == pc = "df_end" /\ acq_res = "ok" /\ Len(steps) = 6

\* C2: an iteration in which acquire reports out-of-date rebuilds the
\* swapchain and returns having neither reset the fence, nor submitted, nor
\* presented; the slot's fence is signaled when the iteration ends.
C2_AbortKeepsFence ==
    (pc = "df_end" /\ acq_res = "out_of_date") =>
        /\ rebuilds = 1
        /\ swapchain.alive
        /\ \A i \in 1..Len(steps) : steps[i].op \in {"wait_fence", "acquire"}
        /\ pres_res = "none"
        /\ fence[sync_local.fence]

C2_Witness == pc = "df_end" /\ acq_res = "out_of_date" /\ Len(frames) > 0

\* C3: the frames in flight (submitted, their fence not yet seen signaled
\* by the CPU) never number more than MAX_FRAMES_IN_FLIGHT.
C3_FramesInFlight == Cardinality(InFlight) <= MAX_FRAMES_IN_FLIGHT

C3_Witness == Cardinality(InFlight) = MAX_FRAMES_IN_FLIGHT /\ rebuilds > 0

C5_SemaphorePairing ==
    \A i \in 1..Len(frames) :
        /\ \E s \in DOMAIN sync_objects :
            /\ frames[i].acq_sem = sync_objects[s].image_available_semaphore
            /\ frames[i].wait_sem = sync_objects[s].image_available_semaphore
            /\ frames[i].signal_sem = sync_objects[s].render_finished_semaphore
            /\ frames[i].fence = sync_objects[s].fence
            /\ frames[i].pres # "none" =>
                  frames[i].pres_sem = sync_objects[s].render_finished_semaphore
        /\ frames[i].pres = "shown" => frames[i].st = "done"

C5_Witness ==
    \E i \in 1..Len(frames) :
        frames[i].pres = "shown" /\ frames[i].fence = 1

\* C6: the (k+1)-th call of InFlightFrames::next returns Some(set k mod N)
\* of a ring of N sets, never None.
C6_RingOrder ==
    calls > 0 =>
        ret = << "Some", sync_objects[(calls - 1) % SyncLen(sync_objects)] >>

C6_Witness == SyncLen(sync_objects) = 3 /\ calls = 8

\* C7: the fences are created signaled: a fence wait on a slot that no
\* submission has used yet finds the fence signaled, and returns.
C7_FirstWaitReturns ==
    (pc = "df_wait" /\ ~used[sync_local.fence]) =>
        (fence[sync_local.fence] /\ ENABLED DfWaitFence)

C7_Witness == pc = "df_acquire" /\ sync_local.fence = 1 /\ ~used[1] /\ used[0]

\* C8: an iteration of draw_frame rebuilds the swapchain exactly when
\* acquire reported out-of-date, present reported suboptimal or out-of-date,
\* or a resize is pending after present; an out-of-date present rebuilds and
\* does not panic.
C8_RebuildTriggers ==
    /\ pc = "df_end" =>
        ( rebuilds >= 1 <=>
            \/ acq_res = "out_of_date"
            \/ pres_res \in {"suboptimal", "out_of_date"}
            \/ resize_dimensions # NONE )
    /\ pres_res = "out_of_date" =>
        /\ pc # "panicked"
        /\ rebuilds >= 1 \/ pc = "rc_enter"

C8_Witness == pc = "df_end" /\ pres_res = "out_of_date" /\ rebuilds >= 1

InRecreateBody == pc \in {"rc_idle", "rc_cleanup", "rc_create"}

\* C9: recreate_swapchain, entered with a zero width or height pending, only
\* polls events until a resize with both positive is seen: while it polls,
\* the swapchain and the command buffers are untouched, it goes on only with
\* a non-minimized window, and Swapchain::create never gets a zero width or
\* height.
C9_MinimizedWaits ==
    /\ pc = "rc_poll" =>
        /\ entered_minimized
        /\ ~HasWindowBeenMaximized(resize_dimensions)
        /\ swapchain.alive /\ command_buffers.alive
    /\ (InRecreateBody /\ entered_minimized) =>
        (resize_dimensions # NONE /\ resize_dimensions[1] > 0
            /\ resize_dimensions[2] > 0)
    /\ InRecreateBody => ~HasWindowBeenMinimized(resize_dimensions)
    /\ pc = "rc_create" =>
        /\ RecreateDimensions(resize_dimensions, swapchain)[1] > 0
        /\ RecreateDimensions(resize_dimensions, swapchain)[2] > 0
    /\ create_dims[1] > 0 /\ create_dims[2] > 0

C9_Witness == pc = "rc_create" /\ entered_minimized

C18_ArraysMatchImageCount ==
    swapchain.alive =>
        \A o \in 1..Len(objects) :
            /\ objects[o].uniforms = swapchain.image_count
            /\ objects[o].descriptor_sets = swapchain.image_count

\* A call of recreate_swapchain installs its new swapchain.
RebuildStep == pc = "rc_create" /\ pc' \notin {"rc_create", "rc_panicked"}

Properties(sc) ==
    [ extent |-> sc.extent, format |-> sc.format,
      present_mode |-> sc.present_mode ]

AliveFlags ==
    << swapchain.alive, render_pass.alive, pipeline.alive,
       pipeline_layout.alive, command_buffers.alive >>

AllAlive == \A i \in 1..Len(AliveFlags) : AliveFlags[i]
NoneAlive == \A i \in 1..Len(AliveFlags) : ~AliveFlags[i]

Range(q) == { q[i] : i \in 1..Len(q) }

Logged(e) == \E k \in 1..Len(destroyed) : destroyed[k] = e

\* e is in the log at a position before k.
LoggedBefore(e, k) == \E j \in 1..(k - 1) : destroyed[j] = e

\* a is in the log, before b, whenever b is.
Precedes(a, b) ==
    \A k \in 1..Len(destroyed) : destroyed[k] = b => LoggedBefore(a, k)

Times(e) == Cardinality({ k \in 1..Len(destroyed) : destroyed[k] = e })

\* The handles VkContext::drop destroys.
ContextHandles ==
    { "transient_command_pool", "general_command_pool", "device",
      "surface_khr", "callback", "instance" }

\* The handles Drop for VulkanApp destroys itself.
AppHandles ==
    { "command_buffers", "pipeline", "pipeline_layout", "render_pass",
      "swapchain", "image_available_semaphore", "render_finished_semaphore",
      "fence", "descriptor_pool", "descriptor_set_layout" }

\* C11: when VkContext::drop destroys anything, every Buffer, Texture and
\* Swapchain holding the context has released it, and Drop for VulkanApp has
\* destroyed the swapchain-dependent objects, the synchronization objects,
\* the descriptor pool and the descriptor set layout.
C11_ContextDestroyedLast ==
    \A k \in 1..Len(destroyed) :
        (destroyed[k].op = "call" /\ destroyed[k].id[1] \in ContextHandles) =>
            /\ \A r \in Resources(objects) :
                    LoggedBefore(Release("context", r.id), k)
            /\ LoggedBefore(Release("context", Id("VulkanApp", 0, 0)), k)
            /\ \A h \in AppHandles :
                    \E j \in 1..(k - 1) :
                        destroyed[j].op = "call" /\ destroyed[j].id[1] = h
            /\ \A i \in DOMAIN sync_objects :
                    LoggedBefore(Call("destroy_fence", Id("fence", i, 0)), k)

C11_Witness ==
    /\ Logged(Call("destroy_device", Id("device", 0, 0)))
    /\ Logged(Release("context", Id("uniforms", 2, 1)))

\* The handles the calls of VkContext::drop destroyed so far, in order.
ContextLog ==
    LET made == SelectSeq(destroyed,
                    LAMBDA e : e.op = "call" /\ e.id[1] \in ContextHandles)
    IN  [ i \in 1..Len(made) |-> made[i].id[1] ]

\* << a, b >>: a was made from b and has to be destroyed before it.
ContextDependsOn ==
    { << "transient_command_pool", "device" >>,
      << "general_command_pool", "device" >>,
      << "device", "instance" >>,
      << "surface_khr", "instance" >>,
      << "callback", "instance" >> }

\* C12: VkContext::drop destroys the transient and the general command
\* pool, then the device, then the surface, then the debug callback when
\* there is one, then the instance; no handle is destroyed before one that
\* depends on it (the pools on the device; the device, the surface and the
\* callback on the instance).
C12_ContextDropOrder ==
    /\ ContextLog \in
         { << >>,
           << "transient_command_pool", "general_command_pool", "device",
              "surface_khr" >> \o
           (IF debug_report_callback # NONE THEN << "callback" >> ELSE << >>)
           \o << "instance" >> }
    /\ \A d \in ContextDependsOn :
         \A k \in 1..Len(ContextLog) :
            ContextLog[k] = d[2] =>
                /\ \A j \in k..Len(ContextLog) : ContextLog[j] # d[1]
                /\ (d[1] = "callback" /\ debug_report_callback = NONE)
                   \/ \E j \in 1..(k - 1) : ContextLog[j] = d[1]

C12_Witness ==
    /\ Logged(Call("destroy_instance", Id("instance", 0, 0)))
    /\ debug_report_callback # NONE

\* The Buffers among the application's resources.
Buffers(objs) == { r \in Resources(objs) : r.type = "Buffer" }

\* C13: for every Buffer, destroy_buffer and free_memory are each called at
\* most once, free_memory only after destroy_buffer, and both have been
\* called once the Buffer is dropped (its context released).
C13_BufferDropOrder ==
    \A b \in Buffers(objects) :
        /\ Times(Call("destroy_buffer", b.id)) <= 1
        /\ Times(Call("free_memory", b.id)) <= 1
        /\ Precedes(Call("destroy_buffer", b.id), Call("free_memory", b.id))
        /\ Logged(Release("context", b.id)) =>
                /\ Times(Call("destroy_buffer", b.id)) = 1
                /\ Times(Call("free_memory", b.id)) = 1

C13_Witness ==
    /\ Logged(Release("context", Id("uniforms", 1, 0)))
    /\ Logged(Release("context", Id("mesh.indices", 0, 0)))

\* The resources a Mesh owns.
MeshIds == { "mesh.vertices", "mesh.indices", "mesh.texture" }

\* The Rc<Mesh> of Object o has been dropped.
ObjectReleasedBefore(o, k) == LoggedBefore(Release("mesh", Id("object", o, 0)), k)

\* Every resource of the Mesh is destroyed and dropped before position k.
MeshGoneBefore(k) ==
    \A m \in MeshIds : LoggedBefore(Release("context", Id(m, 0, 0)), k)

\* C14: nothing of the Mesh (vertex buffer, index buffer, texture) is
\* destroyed or released before every Object has dropped its reference to
\* the Mesh, and once the last Object has dropped it the Mesh is released
\* at once: the reference count is zero and nothing else is destroyed
\* before the Mesh's resources are.
C14_MeshOutlivesObjects ==
    /\ \A k \in 1..Len(destroyed) :
            destroyed[k].id[1] \in MeshIds =>
                \A o \in 1..Len(objects) : ObjectReleasedBefore(o, k)
    /\ (\A o \in 1..Len(objects) :
            ObjectReleasedBefore(o, Len(destroyed) + 1)) =>
         /\ mesh_rc = 0
         /\ \A k \in 1..Len(destroyed) :
                ( /\ \A o \in 1..Len(objects) : ObjectReleasedBefore(o, k)
                  /\ destroyed[k].id[1] \notin MeshIds ) => MeshGoneBefore(k)

C14_Witness ==
    /\ Logged(Release("context", Id("mesh.texture", 0, 0)))
    /\ ~Logged(Release("context", Id("uniforms", 2, 0)))
    /\ Logged(Release("context", Id("uniforms", 1, 0)))

\* The calls of execute_one_time_commands in the order of its body.
OneTimeOrder ==
    << OtCall("allocate_command_buffers",
              << "transient_command_pool", "PRIMARY", "1" >>),
       OtCall("begin_command_buffer", << "ONE_TIME_SUBMIT" >>),
       OtCall("executor", << >>),
       OtCall("end_command_buffer", << >>),
       OtCall("queue_submit", << "graphics_queue", "no_wait_semaphores",
                                 "no_signal_semaphores", "null_fence" >>),
       OtCall("queue_wait_idle", << "graphics_queue" >>),
       OtCall("free_command_buffers", << "transient_command_pool" >>) >>

\* C15: execute_one_time_commands makes its calls in this order: allocate
\* from the transient pool, begin with the one-time-submit flag, run the
\* caller's body, end, submit to the graphics queue with no semaphores and
\* no fence, wait for the graphics queue to go idle, free.  It has returned
\* only when all seven calls were made and every recorded command has
\* executed, and the command buffer is never freed while its submission is
\* still pending.
C15_OneTimeCommands ==
    /\ Len(ot_log) <= Len(OneTimeOrder)
    /\ ot_log = SubSeq(OneTimeOrder, 1, Len(ot_log))
    /\ command_buffer.state # "freed_pending"
    /\ command_buffer.state = "freed" =>
            command_buffer.executed = command_buffer.recorded
    /\ ot_pc = "returned" =>
            /\ ot_log = OneTimeOrder
            /\ command_buffer.state = "freed"
            /\ command_buffer.executed = command_buffer.recorded

C15_Witness ==
    /\ ot_pc = "returned"
    /\ command_buffer.recorded = MaxCommands
    /\ command_buffer.executed = MaxCommands
    /\ ot_calls > 1

\* Memory type i is allowed by the requirement bitmask and has every
\* desired property flag.
Suitable(i) ==
    /\ i \in 0..(mem_properties.memory_type_count - 1)
    /\ (requirements \div (2 ^ i)) % 2 = 1
    /\ required_properties \subseteq mem_properties.memory_types[i + 1]

SuitableTypes == { i \in 0..(MaxMemoryTypes - 1) : Suitable(i) }

\* C16: when some memory type is allowed by the bitmask and has all the
\* desired flags, find_memory_type returns the lowest such index.
C16_LowestSuitableIndex ==
    (mem_type # NONE /\ SuitableTypes # {}) =>
        /\ mem_type[1] = "index"
        /\ mem_type[2] \in SuitableTypes
        /\ \A j \in SuitableTypes : mem_type[2] <= j

C16_Witness ==
    /\ mem_type # NONE
    /\ Cardinality(SuitableTypes) >= 2
    /\ 0 \notin SuitableTypes
    /\ mem_type = << "index", 1 >>

\* C17: when no memory type satisfies both constraints, find_memory_type
\* panics and returns no index; an index it does return satisfies both.
C17_PanicWhenNoneSuitable ==
    mem_type # NONE =>
        /\ SuitableTypes = {} => mem_type = << "panic" >>
        /\ mem_type[1] = "index" => Suitable(mem_type[2])

C17_Witness ==
    /\ mem_type = << "panic" >>
    /\ mem_properties.memory_type_count = MaxMemoryTypes
    /\ requirements # 0
    /\ \E i \in 0..(MaxMemoryTypes - 1) :
           required_properties \subseteq mem_properties.memory_types[i + 1]

\* ------------------------------------------------------ rebuilds per frame
\* C21: one iteration of draw_frame calls recreate_swapchain at most once,
\* whichever of the triggers (present suboptimal, present out-of-date,
\* pending resize) occur in it.
C21_RebuildAtMostOnce == rebuilds <= 1

\* ------------------------------------------------- command buffers per image
\* C27: whenever a frame can be drawn (the control thread is anywhere but
\* inside a rebuild's re-creation or past the teardown), there are as many
\* prerecorded command buffers as the current swapchain has images, and the
\* image index draw_frame got from acquire indexes a command buffer.
C27_CommandBufferPerImage ==
    /\ pc \notin { "rc_create", "rc_panicked", "exited" } =>
          /\ swapchain.alive /\ command_buffers.alive
          /\ command_buffers.count = swapchain.image_count
    /\ pc \in { "df_reset", "df_update", "df_submit" } =>
          image_index \in 0..(command_buffers.count - 1)

C27_Witness ==
    /\ pc = "df_submit"
    /\ command_buffers.count = 1
    /\ objects[1].uniforms = 2
    /\ image_index = 0

\* ------------------------------------------------ dimensions of a rebuild
\* C22: the swapchain a call of recreate_swapchain creates is requested with
\* the dimensions of the latest Resized event of the most recent poll when a
\* resize is pending, and with the extent of the swapchain it replaces when
\* none is pending.
C22_RebuildDimensions ==
    [][ RebuildStep =>
          /\ resize_dimensions # NONE =>
                (polled.resized # NONE /\ create_dims' = polled.resized)
          /\ resize_dimensions = NONE =>
                (polled.resized = NONE /\ create_dims' = swapchain.extent) ]_vars

C22_Witness ==
    /\ pc = "df_end"
    /\ rebuilds = 1
    /\ entered_minimized = FALSE
    /\ polled.resized # NONE
    /\ create_dims = polled.resized
    /\ create_dims # InitialDims

\* ------------------------------------------------------------ fence waits
\* The fence draw_frame waits on is signaled, or a submission that signals
\* it is queued and can execute.
WaitIsBacked ==
    pc = "df_wait" =>
        \/ fence[sync_local.fence]
        \/ \E i \in 1..Len(frames) :
              /\ frames[i].fence = sync_local.fence
              /\ frames[i].st = "queued"
              /\ sem[frames[i].wait_sem] > 0

\* C24: whenever draw_frame waits on a slot's fence, the fence is signaled
\* or is the fence of a submission made and not yet completed; with a GPU
\* that completes every submission, every fence wait returns.
C24_FenceWaitReturns ==
    /\ []WaitIsBacked
    /\ (pc = "df_wait") ~> (pc = "df_acquire")

C24_Witness ==
    /\ pc = "df_wait"
    /\ ~fence[sync_local.fence]
    /\ used[sync_local.fence]
    /\ quiet

\* ------------------------------------------------------------ close requests
\* run() has left its loop (or the process has panicked).
LeftLoop == pc \in { "run_idle", "drop", "exited", "panicked", "rc_panicked" }

\* C26: a CloseRequested event delivered to a poll, in the main loop or in
\* the minimized-window loop of recreate_swapchain, is followed by run()
\* leaving the frame loop.
C26_CloseLeavesLoop == polled.close ~> LeftLoop

\* ------------------------------------------------------ semaphore reuse
\* The semaphore h holds no signal and no queued submission will signal it.
Unsignaled(h) ==
    /\ sem[h] = 0
    /\ \A i \in 1..Len(frames) :
          frames[i].st = "queued" => frames[i].signal_sem # h

\* The image-acquired semaphore is unsignaled when acquire is given it.
AcquireTargetUnsignaled ==
    pc = "df_acquire" => Unsignaled(sync_local.image_available_semaphore)

\* C25: a slot's semaphore is given as a signal target (image-acquired to
\* acquire, render-finished to submit) only when it is unsignaled and no
\* signal of it is pending: every earlier signal has been consumed by its
\* wait (submit for image-acquired, present for render-finished).
C25_SignalTargetUnsignaled ==
    /\ AcquireTargetUnsignaled
    /\ pc = "df_submit" =>
          Unsignaled(SubmitInfo(sync_local, image_index).signal_semaphore)

\* ------------------------------------------------------ layout transitions
\* The (old, new) pairs transition_image_layout is required to support.
SupportedTransitions ==
    { << "UNDEFINED", "COLOR_ATTACHMENT_OPTIMAL" >>,
      << "UNDEFINED", "DEPTH_STENCIL_ATTACHMENT_OPTIMAL" >>,
      << "UNDEFINED", "TRANSFER_DST_OPTIMAL" >>,
      << "TRANSFER_DST_OPTIMAL", "TRANSFER_SRC_OPTIMAL" >>,
      << "TRANSFER_DST_OPTIMAL", "SHADER_READ_ONLY_OPTIMAL" >> }

\* C23: in every transition_image_layout call the application makes (for
\* the color render target, the depth render target and the texture
\* upload), the new layout is never UNDEFINED and the pair of layouts is one
\* of the supported pairs.
C23_LayoutTransitions ==
    \A i \in 1..Len(requests) :
        /\ requests[i].new # "UNDEFINED"
        /\ << requests[i].old, requests[i].new >> \in SupportedTransitions

C23_Witness ==
    /\ tex_pc = "ready"
    /\ tex_rebuilds = 1
    /\ Len(requests) = 5
    /\ requests[3].image = "texture"
    /\ requests[3].mip_levels = 3
    /\ requests[5].image = "depth_texture"

\* ------------------------------------------------------------ upload size
\* C28: the byte count create_device_local_buffer_with_data gives to
\* Buffer::copy is at most the size the destination buffer was created with
\* (data length times element size).
C28_CopyWithinDestination ==
    cp_pc = "done" => copy_size <= buffer.buffer_size

\* ---------------------------------------------------------- queue families
\* Family number i of the device has a queue and supports graphics.
GraphicsFamily(i) ==
    /\ i \in 0..(Len(queue_props) - 1)
    /\ queue_props[i + 1].queue_count > 0
    /\ queue_props[i + 1].graphics

\* Family number i of the device has a queue and can present to the surface.
PresentFamily(i) ==
    /\ i \in 0..(Len(queue_props) - 1)
    /\ queue_props[i + 1].queue_count > 0
    /\ queue_props[i + 1].present

\* C29: each index find_queue_families returns is the device's own index
\* of a family that has a queue and supports graphics (first result) or
\* presentation (second result), and an index is returned whenever such a
\* family exists.
C29_QueueFamilyIndices ==
    queue_families # NONE =>
        /\ queue_families[1] # NONE => GraphicsFamily(queue_families[1][2])
        /\ queue_families[2] # NONE => PresentFamily(queue_families[2][2])
        /\ (\E i \in 0..(MaxFamilies - 1) : GraphicsFamily(i)) =>
              queue_families[1] # NONE
        /\ (\E i \in 0..(MaxFamilies - 1) : PresentFamily(i)) =>
              queue_families[2] # NONE

\* ------------------------------------------------------------ sample count
\* The sample counts above one whose bit is set in both limits.
UsableSampleCounts ==
    { c \in { TYPE_2, TYPE_4, TYPE_8, TYPE_16, TYPE_32, TYPE_64 } :
        /\ (color_sample_counts \div c) % 2 = 1
        /\ (depth_sample_counts \div c) % 2 = 1 }

\* C30: get_max_usable_sample_count returns the largest sample count whose
\* bit is set in both the color and the depth limit, and TYPE_1 when no
\* larger count is supported by both.
C30_MaxUsableSampleCount ==
    msaa_samples # 0 =>
        msaa_samples =
            IF UsableSampleCounts = {} THEN TYPE_1
            ELSE CHOOSE c \in UsableSampleCounts :
                    \A e \in UsableSampleCounts : e <= c

====
